---- MODULE Spec2Model ----
(***************************************************************************)
(* Resume Builder (script.js): the form-submission entry point and the     *)
(* PDF generation cycle (generatePDF, waitForResources,                    *)
(* adjustTemplateForContent, html2canvas, handleMultiPagePDF, pdf.save).   *)
(*                                                                         *)
(* A text value is a sequence of one-character strings.  The page          *)
(* (index.html) is the environment of the script: which template elements  *)
(* it holds, and whether the font-loading API exists, are chosen in Init.  *)
(***************************************************************************)
EXTENDS Integers, Sequences, FiniteSets, TLC

(* ------------------------------------------------------------------ *)
(* Bounds of the model                                                  *)
(* ------------------------------------------------------------------ *)

\* invocations of generatePDF that may be suspended at the same time
MaxInFlight == 2

\* requests refused by an in-progress guard that are counted per cycle
MaxRejects == 1

(* ------------------------------------------------------------------ *)
(* Program constants                                                    *)
(* ------------------------------------------------------------------ *)

PageWidthMm == 210

PageHeightMm == 297

(* ------------------------------------------------------------------ *)
(* Text                                                                 *)
(* ------------------------------------------------------------------ *)

Lower == {"a", "b", "c", "d", "e", "f", "g", "h", "i", "j", "k", "l", "m",
          "n", "o", "p", "q", "r", "s", "t", "u", "v", "w", "x", "y", "z"}

Upper == {"A", "B", "C", "D", "E", "F", "G", "H", "I", "J", "K", "L", "M",
          "N", "O", "P", "Q", "R", "S", "T", "U", "V", "W", "X", "Y", "Z"}

Digit == {"0", "1", "2", "3", "4", "5", "6", "7", "8", "9"}

\* \s of the regular expressions, as far as the inputs use it
Space == {" ", "\n", "\t"}

AllChars(v, S) == \A i \in 1..Len(v) : v[i] \in S

RECURSIVE TrimLeft(_)
TrimLeft(v) ==
    IF v = <<>> THEN <<>>
    ELSE IF Head(v) \in Space THEN TrimLeft(Tail(v)) ELSE v

RECURSIVE TrimRight(_)
TrimRight(v) ==
    IF v = <<>> THEN <<>>
    ELSE IF v[Len(v)] \in Space THEN TrimRight(SubSeq(v, 1, Len(v) - 1)) ELSE v

\* String.prototype.trim
Trim(v) == TrimRight(TrimLeft(v))

(* ------------------------------------------------------------------ *)
(* ValidationRules                                                      *)
(* ------------------------------------------------------------------ *)

FieldNames == {"name", "email", "phone", "address", "about", "experience",
               "education", "skills", "strengths", "achievements", "projects",
               "certificates", "custom-title", "custom-content"}

RuleRequired(f) == f \in {"name", "email", "phone", "address"}

\* minLength of the rule, 0 when the rule has none
RuleMinLength(f) ==
    CASE f = "name" -> 2
      [] f = "address" -> 10
      [] f \in {"about", "experience", "education"} -> 20
      [] f = "skills" -> 5
      [] f \in {"strengths", "achievements", "projects", "certificates"} -> 10
      [] f = "custom-title" -> 2
      [] f = "custom-content" -> 5
      [] OTHER -> 0

\* /^[a-zA-Z\s'-]+$/
NamePattern(v) == Len(v) >= 1 /\ AllChars(v, Lower \cup Upper \cup Space \cup {"'", "-"})

\* /^[^\s@]+@[^\s@]+\.[^\s@]+$/
EmailPattern(v) ==
    \E i \in 2..Len(v) :
      /\ v[i] = "@"
      /\ \A k \in 1..Len(v) : k # i => v[k] \notin Space \cup {"@"}
      /\ \E j \in (i + 2)..(Len(v) - 1) : v[j] = "."

\* /^[\+]?[\d\s\(\)\-]{10,}$/
PhonePattern(v) ==
    LET body == IF v # <<>> /\ Head(v) = "+" THEN Tail(v) ELSE v
    IN  Len(body) >= 10 /\ AllChars(body, Digit \cup Space \cup {"(", ")", "-"})

RulePattern(f, v) ==
    CASE f = "name" -> NamePattern(v)
      [] f = "email" -> EmailPattern(v)
      [] f = "phone" -> PhonePattern(v)
      [] OTHER -> TRUE

\* value.split(',').map(trim).filter(nonempty).length
RECURSIVE CountItems(_, _)
CountItems(v, cur) ==
    IF v = <<>> THEN (IF Trim(cur) # <<>> THEN 1 ELSE 0)
    ELSE IF Head(v) = ","
         THEN (IF Trim(cur) # <<>> THEN 1 ELSE 0) + CountItems(Tail(v), <<>>)
         ELSE CountItems(Tail(v), Append(cur, Head(v)))

\* customValidator of the skills rule
SkillsValidator(v) == Trim(v) = <<>> \/ CountItems(v, <<>>) >= 2

RuleCustom(f, v) == IF f = "skills" THEN SkillsValidator(v) ELSE TRUE

(* ------------------------------------------------------------------ *)
(* The element cache                                                    *)
(* ------------------------------------------------------------------ *)

\* the checkbox controls isFieldRequired reads from ResumeBuilder.elements
SectionControls == {"includeExperience", "includeProjects",
                    "includeCertificates", "includeCustom"}

ControlOf(f) ==
    CASE f = "experience" -> "includeExperience"
      [] f = "projects" -> "includeProjects"
      [] f = "certificates" -> "includeCertificates"
      [] f \in {"custom-title", "custom-content"} -> "includeCustom"
      [] OTHER -> "none"

(* ------------------------------------------------------------------ *)
(* Inputs                                                               *)
(* ------------------------------------------------------------------ *)

\* the template variants a form-data object can name
Templates == {"modern", "classic"}

TextAlLi == <<" ", "A", "l", "-", "L", "i">>

TextMail == <<"a", "@", "b", ".", "c">>

TextPhone == <<"0", "1", "2", "3", "4", "5", "6", "7", "8", "9">>

TextAddress == <<"1", "2", " ", "M", "a", "i", "n", " ", "S", "t">>

FormOf(name, email, phone, address, skills) ==
    [f \in FieldNames |->
        CASE f = "name" -> name
          [] f = "email" -> email
          [] f = "phone" -> phone
          [] f = "address" -> address
          [] f = "skills" -> skills
          [] OTHER -> <<>>]

\* the form as the page loads it
FormBlank == FormOf(<<>>, <<>>, <<>>, <<>>, <<>>)

\* the contents the user can give the form: nothing, and the four required
\* fields filled in with every optional field left empty
FormInputs ==
    { FormBlank,
      FormOf(TextAlLi, TextMail, TextPhone, TextAddress, <<>>) }

\* the pages the script can be loaded into: the templates whose root element
\* pdf-<t> exists, and those whose sub-elements (pdf-name-<t>, ...) exist
Pages ==
    { [roots |-> {"modern"}, parts |-> Templates],
      [roots |-> {"modern"}, parts |-> {"modern"}] }

\* what ResumeBuilder.elements holds for the section checkboxes.
\* cacheElements caches none of them ("undefined"): isFieldRequired then
\* throws for the fields they control and validateAllFields is never true.
\* The second cache is the one isFieldRequired and populateFormFields are
\* written for (the controls cached, unchecked); only there does a
\* submission get as far as generatePDF.
ControlCaches ==
    { [c \in SectionControls |-> "undefined"],
      [c \in SectionControls |-> "unchecked"] }

\* most pages of a document whose bitmap the rasterizer returns
MaxPages == 2

\* the bitmaps html2canvas can return
Canvases ==
    { [w |-> PageWidthMm, h |-> PageHeightMm * k + d] :
        k \in 0..(MaxPages - 1), d \in {0, 1} } \ { [w |-> PageWidthMm, h |-> 0] }

\* the scrollHeight values the fitter can measure: under every threshold
\* of adjustTemplateForContent (ratio 0.89) and over every one (ratio 2.0008)
ContentHeights == {1000, 2246}

(* ------------------------------------------------------------------ *)
(* State                                                                *)
(* ------------------------------------------------------------------ *)

VARIABLES
    page,            \* the elements index.html provides (see Pages)
    fontsApi,        \* document.fonts && document.fonts.ready
    elements,        \* ResumeBuilder.elements, the section checkboxes
    fields,          \* value of every form field
    currentTemplate, \* ResumeBuilder.currentTemplate
    isGenerating,    \* ResumeBuilder.isGenerating
    loading,         \* loading indicator shown and form disabled
    message,         \* what the message container shows
    display,         \* style.display of every template root
    populated,       \* what populateTemplate last wrote into every template
    surface,         \* compaction transforms present on every template
    cycles,          \* the suspended invocations of generatePDF
    done,            \* the invocation of generatePDF that ended last
    lastGeneration,  \* localStorage 'lastGeneration'
    rejSubmit,       \* submit events refused during the cycle in progress
    rejKey,          \* Ctrl/Cmd+Enter refused during the cycle in progress
    warnings,        \* in-progress warnings shown during the cycle in progress
    run,             \* one invocation of generatePDF followed call by call
    selectedTemplate, \* localStorage 'selectedTemplate'
    savedData,       \* localStorage 'resumeBuilderData'
    autoSavedData,   \* localStorage 'resumeBuilderData_auto'
    savedFrom,       \* the form as it was when saveProgress last succeeded
    loads,           \* how often the page was loaded again
    msgHidden,       \* the message container has the class 'hidden'
    hideTimers,      \* pending 5000 ms timers of showMessage
    autoTimers,      \* pending 2000 ms timers of the auto-save listener
    sinceInput,      \* seconds since the last input event, up to AutoSaveDelay
    autoSaves,       \* calls of autoSave since the last input event
    includePhoto,    \* the include-photo checkbox is checked
    photoPreview,    \* photoPreview.src
    photoInput,      \* the file chosen in the photo input
    photoError,      \* the photo error is shown
    readers,         \* files whose FileReader has not called back yet
    photoWanted      \* what the most recent photo action asks the preview to show

envVars == <<page, fontsApi, elements>>

formVars == <<fields, currentTemplate>>

domVars == <<display, populated, surface>>

reqVars == <<rejSubmit, rejKey, warnings>>

storeVars == <<savedData, autoSavedData, savedFrom, loads>>

noticeVars == <<msgHidden, hideTimers>>

autoVars == <<autoTimers, sinceInput, autoSaves>>

photoVars == <<includePhoto, photoPreview, photoInput, photoError, readers,
               photoWanted>>

\* the form outside generatePDF: storage of the form, the visibility of the
\* message container, the auto-save timer and the photo. Spec follows the
\* text of the message and the timer an input event starts, and leaves the
\* rest to StoreSpec, AutoSpec and PhotoSpec; RunSpec leaves all of it alone.
uiVars == <<storeVars, noticeVars, autoVars, photoVars>>

vars == <<page, fontsApi, elements, fields, currentTemplate, isGenerating,
          loading, message, display, populated, surface, cycles, done,
          lastGeneration, rejSubmit, rejKey, warnings, run, selectedTemplate,
          savedData, autoSavedData, savedFrom, loads, msgHidden, hideTimers,
          autoTimers, sinceInput, autoSaves, includePhoto, photoPreview,
          photoInput, photoError, readers, photoWanted>>

NoMessage == [type |-> "none", text |-> "none"]

MsgInProgress == [type |-> "warning", text |-> "PDF generation already in progress"]

MsgFixErrors == [type |-> "error", text |-> "Please fix the errors above"]

MsgPdfFailed == [type |-> "error", text |-> "Failed to generate PDF"]

MsgSubmitError == [type |-> "error", text |-> "An error occurred while generating"]

MsgUnhandled == [type |-> "error", text |-> "An error occurred while processing"]

MsgSuccess == [type |-> "success", text |-> "Resume generated successfully"]

Blank == [name |-> <<>>, sections |-> {}]

NoData == [template |-> "none", name |-> <<>>, sections |-> {}]

NoCycle ==
    [outcome |-> "none", data |-> NoData, trace |-> <<>>,
     rasterCalls |-> 0, total |-> 0, placed |-> 0, saves |-> 0,
     fileName |-> <<>>, notices |-> <<>>, recorded |-> FALSE]

(* ------------------------------------------------------------------ *)
(* Validation                                                           *)
(* ------------------------------------------------------------------ *)

\* isFieldRequired throws a TypeError: it reads .checked of a control that
\* ResumeBuilder.elements does not hold
IsFieldRequiredThrows(f) ==
    /\ ~RuleRequired(f)
    /\ ControlOf(f) # "none"
    /\ elements[ControlOf(f)] = "undefined"

isFieldRequired(f) ==
    \/ RuleRequired(f)
    \/ ControlOf(f) # "none" /\ elements[ControlOf(f)] = "checked"

validateField(f) ==
    LET value == Trim(fields[f])
    IN  IF IsFieldRequiredThrows(f) THEN FALSE
        ELSE IF isFieldRequired(f) /\ value = <<>> THEN FALSE
        ELSE IF value = <<>> THEN TRUE
        ELSE IF RuleMinLength(f) > 0 /\ Len(value) < RuleMinLength(f) THEN FALSE
        ELSE IF ~RulePattern(f, value) THEN FALSE
        ELSE RuleCustom(f, value)

validateAllFields == \A f \in FieldNames : validateField(f)

(* ------------------------------------------------------------------ *)
(* Form data and the templates                                          *)
(* ------------------------------------------------------------------ *)

\* the sections populateTemplate makes visible for a form
SectionsOf(form) ==
    { f \in {"about", "experience", "education", "skills", "strengths",
             "achievements", "projects", "certificates"} : Trim(form[f]) # <<>> }
    \cup (IF Trim(form["custom-title"]) # <<>> /\ Trim(form["custom-content"]) # <<>>
          THEN {"custom"} ELSE {})

collectFormData ==
    [template |-> currentTemplate,
     name |-> Trim(fields["name"]),
     sections |-> SectionsOf(fields)]

\* populateTemplate throws on the first missing sub-element
PopulateThrows(data) == data.template \notin page.parts

populateTemplate(data) ==
    [populated EXCEPT ![data.template] = [name |-> data.name, sections |-> data.sections]]

(* ------------------------------------------------------------------ *)
(* ContentFitter                                                        *)
(* ------------------------------------------------------------------ *)

\* 297 * 3.77953 px, in units of 1/100000 px
PageHeightPx5 == PageHeightMm * 377953

\* overflowRatio > n / 10, for the measured scrollHeight h
RatioAbove(h, n) == h * 100000 > (n * PageHeightPx5) \div 10

\* the tiers as an else-if chain: each excludes the ones below it
TransformsForExclusive(h) ==
    IF h * 100000 > 2 * PageHeightPx5 THEN {"manual"}
    ELSE IF RatioAbove(h, 16) THEN {"scale"}
    ELSE IF RatioAbove(h, 11) THEN {"compact"}
    ELSE {}

\* the transforms adjustTemplateForContent applies for a measured height
TransformsFor(h) ==
    (IF RatioAbove(h, 11) THEN {"compact"} ELSE {})
    \cup (IF RatioAbove(h, 11) /\ RatioAbove(h, 16) THEN {"scale"} ELSE {})
    \cup (IF RatioAbove(h, 11) /\ h * 100000 > 2 * PageHeightPx5 THEN {"manual"} ELSE {})

adjustTemplateForContent(t, h) ==
    [surface EXCEPT ![t] = surface[t] \cup TransformsFor(h)]

(* ------------------------------------------------------------------ *)
(* Paginator                                                            *)
(* ------------------------------------------------------------------ *)

\* imgHeight <= pageHeight, with imgHeight = canvas.height * 210 / canvas.width
FitsOnePage(cv) == cv.h * PageWidthMm <= PageHeightMm * cv.w

\* Math.floor(imgHeight / pageHeight) + 1
TotalPagesFloor(cv) == (cv.h * PageWidthMm) \div (PageHeightMm * cv.w) + 1

\* Math.ceil(imgHeight / pageHeight)
TotalPages(cv) ==
    (cv.h * PageWidthMm + PageHeightMm * cv.w - 1) \div (PageHeightMm * cv.w)

\* pages the document needs for a bitmap
PagesFor(cv) == IF FitsOnePage(cv) THEN 1 ELSE TotalPages(cv)

(* ------------------------------------------------------------------ *)
(* Helpers of the actions                                               *)
(* ------------------------------------------------------------------ *)

RemoveAt(q, i) == SubSeq(q, 1, i - 1) \o SubSeq(q, i + 1, Len(q))

\* catch block of generatePDF: one error message, then the error is rethrown
GeneratePdfCatch(notices) == Append(notices, MsgPdfFailed)

\* catch block of handleFormSubmission, reached by the rethrown error
SubmissionCatch(notices) == Append(notices, MsgSubmitError)

\* the record of an invocation that ended in its catch block
FailedCycle(outcome, data, trace, rasterCalls, total, placed, saves) ==
    [outcome |-> outcome, data |-> data, trace |-> trace,
     rasterCalls |-> rasterCalls, total |-> total,
     placed |-> placed, saves |-> saves, fileName |-> <<>>,
     notices |-> SubmissionCatch(GeneratePdfCatch(<<>>)), recorded |-> FALSE]

\* the pattern without its g flag: only the first match is replaced
FileNameOfFirstOnly(name) ==
    [i \in 1..Len(name) |->
        IF /\ name[i] \notin Lower \cup Upper \cup Digit
           /\ \A j \in 1..(i - 1) : name[j] \in Lower \cup Upper \cup Digit
        THEN "_" ELSE name[i]]
    \o <<"_", "R", "e", "s", "u", "m", "e", ".", "p", "d", "f">>

\* formData.name.replace(/[^a-zA-Z0-9]/g, '_') + '_Resume.pdf'
FileNameOf(name) ==
    [i \in 1..Len(name) |->
        IF name[i] \in Lower \cup Upper \cup Digit THEN name[i] ELSE "_"]
    \o <<"_", "R", "e", "s", "u", "m", "e", ".", "p", "d", "f">>

\* the record of an invocation that called pdf.save and returned
SavedCycle(data, trace, rasterCalls, total, placed, stored) ==
    [outcome |-> "saved", data |-> data, trace |-> trace,
     rasterCalls |-> rasterCalls, total |-> total,
     placed |-> placed, saves |-> 1, fileName |-> FileNameOf(data.name),
     notices |-> <<MsgSuccess>>, recorded |-> stored]

\* finally block of generatePDF, with the messages the invocation showed
Finally(rec) ==
    /\ isGenerating' = FALSE
    /\ loading' = FALSE
    /\ done' = rec
    /\ message' = rec.notices[Len(rec.notices)]
    /\ rejSubmit' = 0 /\ rejKey' = 0 /\ warnings' = 0

(* ------------------------------------------------------------------ *)
(* Form events                                                          *)
(* ------------------------------------------------------------------ *)

\* the 'input' listener of the form without its clearTimeout call
clearTimeoutKeeps(n) == n

\* clearTimeout(autoSaveTimer): the pending timer, if any, is cancelled
clearTimeout(n) == IF n > 0 THEN n - 1 ELSE 0

\* an 'input' event of the form: the user changes its contents to one of
\* 'forms', and the listener starts the auto-save timer anew
InputEvent(forms) ==
    /\ \E f \in forms : f # fields /\ fields' = f
    /\ autoTimers' = clearTimeout(autoTimers) + 1
    /\ sinceInput' = 0
    /\ autoSaves' = 0
    /\ UNCHANGED <<envVars, run, storeVars, noticeVars, photoVars,
                   selectedTemplate, currentTemplate, isGenerating, loading,
                   message, domVars, cycles, done, lastGeneration, reqVars>>

\* the user changes the contents of the form
EditForm == InputEvent(FormInputs)

handleTemplateChange ==
    /\ \E t \in Templates :
          /\ t # currentTemplate
          /\ currentTemplate' = t
          /\ selectedTemplate' = t
    /\ UNCHANGED <<envVars, run, uiVars, fields, isGenerating, loading, message,
                   domVars, cycles, done, lastGeneration, reqVars>>

(* ------------------------------------------------------------------ *)
(* handleFormSubmission and the synchronous start of generatePDF        *)
(* ------------------------------------------------------------------ *)

\* the guard left out: every submit event goes on to validation
InProgressGuardOff == FALSE

\* if (ResumeBuilder.isGenerating) of handleFormSubmission
InProgressGuard == isGenerating

\* the refusing branch without its showMessage call
RejectSubmissionSilent ==
    /\ rejSubmit < MaxRejects
    /\ rejSubmit' = rejSubmit + 1
    /\ UNCHANGED <<envVars, run, uiVars, selectedTemplate,
                   formVars, isGenerating, loading, message, domVars,
                   cycles, done, lastGeneration, rejKey, warnings>>

\* the refusing branch ending, like the catch block, with hideLoading()
RejectSubmissionHidesLoading ==
    /\ rejSubmit < MaxRejects
    /\ message' = MsgInProgress
    /\ rejSubmit' = rejSubmit + 1
    /\ warnings' = warnings + 1
    /\ loading' = FALSE
    /\ UNCHANGED <<envVars, run, uiVars, selectedTemplate,
                   formVars, isGenerating, domVars, cycles,
                   done, lastGeneration, rejKey>>

\* the branch of handleFormSubmission that refuses the request
RejectSubmission ==
    /\ rejSubmit < MaxRejects
    /\ message' = MsgInProgress
    /\ rejSubmit' = rejSubmit + 1
    /\ warnings' = warnings + 1
    /\ UNCHANGED <<envVars, run, uiVars, selectedTemplate,
                   formVars, isGenerating, loading, domVars, cycles,
                   done, lastGeneration, rejKey>>

\* showLoading() moved in front of the validation
InvalidSubmissionShowsLoading ==
    /\ message' = MsgFixErrors
    /\ loading' = TRUE
    /\ UNCHANGED <<envVars, run, uiVars, selectedTemplate,
                   formVars, isGenerating, domVars, cycles,
                   done, lastGeneration, reqVars>>

\* validateAllFields() is false
InvalidSubmission ==
    /\ message' = MsgFixErrors
    /\ UNCHANGED <<envVars, run, uiVars, selectedTemplate,
                   formVars, isGenerating, loading, domVars, cycles,
                   done, lastGeneration, reqVars>>

\* await waitForResources(): the promise the invocation is first suspended on
FirstSuspension == IF fontsApi THEN "fonts" ELSE "timer"

\* generatePDF(formData) up to its first await, or to the end when it throws
StartGeneration(data) ==
    /\ Len(cycles) < MaxInFlight
    /\ UNCHANGED <<envVars, run, uiVars, selectedTemplate,
                   formVars, surface, lastGeneration>>
    /\ IF PopulateThrows(data)
       THEN /\ Finally(FailedCycle("populate", data, <<>>, 0, 0, 0, 0))
            /\ UNCHANGED <<display, populated, cycles>>
       ELSE /\ populated' = populateTemplate(data)
            /\ IF data.template \notin page.roots
               THEN /\ Finally(FailedCycle("notfound", data, <<>>, 0, 0, 0, 0))
                    /\ UNCHANGED <<display, cycles>>
               ELSE /\ isGenerating' = TRUE
                    /\ loading' = TRUE
                    /\ display' = [display EXCEPT ![data.template] = "block"]
                    /\ cycles' = Append(cycles,
                          [pc |-> FirstSuspension, data |-> data,
                           trace |-> <<"shown">>, rasterCalls |-> 0,
                           fitted |-> {}])
                    /\ UNCHANGED <<message, done, reqVars>>

handleFormSubmission ==
    \/ InProgressGuard /\ RejectSubmission
    \/ ~InProgressGuard /\ ~validateAllFields /\ InvalidSubmission
    \/ ~InProgressGuard /\ validateAllFields /\ StartGeneration(collectFormData)

\* if (!ResumeBuilder.isGenerating) of the Ctrl/Cmd+Enter shortcut
ShortcutGuard == ~isGenerating

\* Ctrl/Cmd+Enter while a cycle is in progress: no event is dispatched
IgnoreShortcut ==
    /\ rejKey < MaxRejects
    /\ rejKey' = rejKey + 1
    /\ UNCHANGED <<envVars, run, uiVars, selectedTemplate,
                   formVars, isGenerating, loading, message, domVars,
                   cycles, done, lastGeneration, rejSubmit, warnings>>

\* Ctrl/Cmd+Enter: dispatches a submit event, handled before it returns
handleKeyboardShortcuts ==
    \/ ShortcutGuard /\ handleFormSubmission
    \/ ~ShortcutGuard /\ IgnoreShortcut

(* ------------------------------------------------------------------ *)
(* The suspended part of generatePDF                                    *)
(* ------------------------------------------------------------------ *)

\* document.fonts.ready is fulfilled: waitForResources starts its 500 ms timer
FontsReady(i) ==
    /\ cycles[i].pc = "fonts"
    /\ cycles' = [cycles EXCEPT ![i].pc = "timer"]
    /\ UNCHANGED <<envVars, run, uiVars, selectedTemplate,
                   formVars, isGenerating, loading, message, domVars,
                   done, lastGeneration, reqVars>>

\* document.fonts.ready is rejected: resolve is never called, the promise of
\* waitForResources stays pending, and the window's unhandledrejection
\* listener shows its message
FontsRejected(i) ==
    /\ cycles[i].pc = "fonts"
    /\ cycles' = [cycles EXCEPT ![i].pc = "pending"]
    /\ message' = MsgUnhandled
    /\ UNCHANGED <<envVars, run, uiVars, selectedTemplate,
                   formVars, isGenerating, loading, domVars,
                   done, lastGeneration, reqVars>>

\* adjustTemplateForContent called without await: html2canvas is called
\* before the 150 ms timer fires
ResourcesReadyNoSettle(i, h) ==
    /\ cycles[i].pc = "timer"
    /\ surface' = adjustTemplateForContent(cycles[i].data.template, h)
    /\ cycles' = [cycles EXCEPT ![i].pc = "raster",
                                ![i].fitted = TransformsFor(h),
                                ![i].rasterCalls = @ + 1,
                                ![i].trace = @ \o <<"resources", "fit", "raster">>]
    /\ UNCHANGED <<envVars, run, uiVars, selectedTemplate,
                   formVars, isGenerating, loading, message, display,
                   populated, done, lastGeneration, reqVars>>

\* the timer of waitForResources fires; generatePDF resumes and runs
\* adjustTemplateForContent up to its 150 ms timer
ResourcesReady(i, h) ==
    /\ cycles[i].pc = "timer"
    /\ surface' = adjustTemplateForContent(cycles[i].data.template, h)
    /\ cycles' = [cycles EXCEPT ![i].pc = "settle",
                                ![i].fitted = TransformsFor(h),
                                ![i].trace = @ \o <<"resources", "fit">>]
    /\ UNCHANGED <<envVars, run, uiVars, selectedTemplate,
                   formVars, isGenerating, loading, message, display,
                   populated, done, lastGeneration, reqVars>>

\* html2canvas called a second time for the same cycle
LayoutSettledTwice(i) ==
    /\ cycles[i].pc = "settle"
    /\ cycles' = [cycles EXCEPT ![i].pc = "raster",
                                ![i].rasterCalls = @ + 2,
                                ![i].trace = @ \o <<"settled", "raster">>]
    /\ UNCHANGED <<envVars, run, uiVars, selectedTemplate,
                   formVars, isGenerating, loading, message, domVars,
                   done, lastGeneration, reqVars>>

\* the 150 ms timer fires; generatePDF resumes and calls html2canvas
LayoutSettled(i) ==
    /\ cycles[i].pc = "settle"
    /\ cycles' = [cycles EXCEPT ![i].pc = "raster",
                                ![i].rasterCalls = @ + 1,
                                ![i].trace = @ \o <<"settled", "raster">>]
    /\ UNCHANGED <<envVars, run, uiVars, selectedTemplate,
                   formVars, isGenerating, loading, message, domVars,
                   done, lastGeneration, reqVars>>

\* html2canvas rejects: catch and finally of generatePDF, catch of
\* handleFormSubmission
RasterRejected(i) ==
    /\ cycles[i].pc = "raster"
    /\ Finally(FailedCycle("raster", cycles[i].data, cycles[i].trace,
                           cycles[i].rasterCalls, 0, 0, 0))
    /\ cycles' = RemoveAt(cycles, i)
    /\ UNCHANGED <<envVars, run, uiVars, selectedTemplate,
                   formVars, domVars, lastGeneration>>

\* the trace of the stages after the bitmap, up to the one that throws
StagesAfterBitmap(cv, upTo) ==
    LET all == <<"bitmap", "hidden", "decide",
                 IF FitsOnePage(cv) THEN "single" ELSE "paginate", "save">>
    IN  SubSeq(all, 1, upTo)

\* handleMultiPagePDF swallowing the error of a page: the document is saved
\* with the pages placed so far
EndOfGenerationSwallow(c, cv, fault, failAt, stored) ==
    CASE fault = "place" ->
            SavedCycle(c.data, c.trace \o StagesAfterBitmap(cv, 5),
                       c.rasterCalls, PagesFor(cv), failAt - 1, stored)
      [] fault = "save" ->
            FailedCycle("save", c.data, c.trace \o StagesAfterBitmap(cv, 5),
                        c.rasterCalls, PagesFor(cv), PagesFor(cv), 1)
      [] OTHER ->
            SavedCycle(c.data, c.trace \o StagesAfterBitmap(cv, 5),
                       c.rasterCalls, PagesFor(cv), PagesFor(cv), stored)

\* generatePDF from the bitmap to its end, as the record of the invocation:
\* the page or the slices are placed, pdf.save is called, the success message
\* is shown and the 'lastGeneration' record is stored. fault names the call
\* that throws, failAt the page whose image cannot be placed.
EndOfGeneration(c, cv, fault, failAt, stored) ==
    CASE fault = "place" ->
            FailedCycle("place", c.data, c.trace \o StagesAfterBitmap(cv, 4),
                        c.rasterCalls, PagesFor(cv), failAt - 1, 0)
      [] fault = "save" ->
            FailedCycle("save", c.data, c.trace \o StagesAfterBitmap(cv, 5),
                        c.rasterCalls, PagesFor(cv), PagesFor(cv), 1)
      [] OTHER ->
            SavedCycle(c.data, c.trace \o StagesAfterBitmap(cv, 5),
                       c.rasterCalls, PagesFor(cv), PagesFor(cv), stored)

\* html2canvas resolves with bitmap cv; generatePDF hides the template and
\* runs to its end. stored: localStorage accepts the 'lastGeneration' record.
RasterResolved(i, cv, fault, failAt, stored) ==
    LET c == cycles[i]
        rec == EndOfGeneration(c, cv, fault, failAt, stored)
    IN  /\ c.pc = "raster"
        /\ fault \in {"none", "place", "save"}
        /\ failAt \in 1..PagesFor(cv)
        /\ fault # "place" => failAt = 1
        /\ fault # "none" => ~stored
        /\ display' = [display EXCEPT ![c.data.template] = "none"]
        /\ cycles' = RemoveAt(cycles, i)
        /\ Finally(rec)
        /\ lastGeneration' =
              IF rec.recorded
              THEN [template |-> rec.data.template, name |-> rec.data.name]
              ELSE lastGeneration
        /\ UNCHANGED <<envVars, run, uiVars, selectedTemplate,
                   formVars, populated, surface>>

(* ------------------------------------------------------------------ *)
(* One invocation of generatePDF, call by call                          *)
(*                                                                      *)
(* run follows a single invocation through adjustTemplateForContent,    *)
(* html2canvas, the page decision, the loop of handleMultiPagePDF and   *)
(* pdf.save, with the values each call computes. A double the code      *)
(* divides out is kept as an exact quotient; the quotients here are     *)
(* never closer to a comparison's limit than 1 / canvas.width.          *)
(* ------------------------------------------------------------------ *)

Quot(n, d) == [n |-> n, d |-> d]

QuotEq(a, b) == a.n * b.d = b.n * a.d

QuotLe(a, b) == a.n * b.d <= b.n * a.d

QuotLt(a, b) == a.n * b.d < b.n * a.d

\* a + b for two quotients of the same denominator
QuotSum(a, b) == Quot(a.n + b.n, a.d)

\* the other variables, which a step of run leaves alone
pageVars == <<page, fontsApi, elements, fields, currentTemplate, isGenerating,
              loading, message, display, populated, surface, cycles, done,
              lastGeneration, rejSubmit, rejKey, warnings, selectedTemplate,
              uiVars>>

NoRun ==
    [pc |-> "none", name |-> <<>>, width |-> 0, height |-> 0,
     fitted |-> {}, scale |-> Quot(1, 1), box |-> Quot(0, 1),
     canvas |-> [w |-> 0, h |-> 0],
     path |-> "none", page |-> 0, totalPages |-> 0, pages |-> <<>>,
     addPageCalls |-> 0, pageCanvases |-> <<>>, fileName |-> <<>>]

\* Math.min in place of Math.max
ScaleFactorMin(h) ==
    IF 3 * (h * 100000) >= 4 * PageHeightPx5
    THEN Quot(PageHeightPx5, h * 100000) ELSE Quot(3, 4)

\* Math.max(0.75, 1 / overflowRatio), with 1 / overflowRatio = pageHeight / h
ScaleFactor(h) ==
    IF 3 * (h * 100000) >= 4 * PageHeightPx5
    THEN Quot(3, 4) ELSE Quot(PageHeightPx5, h * 100000)

\* the percentage taken as 100 * scaleFactor
BoxPercentTimes(s) == Quot(s.n, s.d)

\* style.width and style.height, 100 / scaleFactor percent, as the fraction
\* of the containing block this is: 1 / scaleFactor
BoxPercent(s) == Quot(s.d, s.n)

\* adjustTemplateForContent on a template no earlier cycle has touched;
\* box stays 0 where style.width and style.height are not set
FitContent ==
    /\ run.pc = "fit"
    /\ run' = [run EXCEPT !.pc = "raster",
                          !.fitted = TransformsFor(run.height),
                          !.scale = IF "scale" \in TransformsFor(run.height)
                                    THEN ScaleFactor(run.height) ELSE Quot(1, 1),
                          !.box = IF "scale" \in TransformsFor(run.height)
                                  THEN BoxPercent(ScaleFactor(run.height))
                                  ELSE Quot(0, 1)]
    /\ UNCHANGED pageVars

\* the bitmaps html2canvas returns for { scale: 1.5, width: w, height: h },
\* whichever way it rounds a half pixel
Bitmaps(w, h) ==
    { [w |-> cw, h |-> ch] : cw \in {(3 * w) \div 2, (3 * w + 1) \div 2},
                             ch \in {(3 * h) \div 2, (3 * h + 1) \div 2} }

\* html2canvas resolves. Where the fitter changed nothing the template still
\* has the size that was measured; where it did, the size after the reflow
\* is not known to the script.
Rasterize ==
    /\ run.pc = "raster"
    /\ \E cv \in (IF run.fitted = {} THEN Bitmaps(run.width, run.height)
                                     ELSE Canvases) :
          run' = [run EXCEPT !.pc = "bitmap", !.canvas = cv]
    /\ UNCHANGED pageVars

\* (canvas.height * imgWidth) / canvas.width
ImgHeight(cv) == Quot(cv.h * PageWidthMm, cv.w)

\* new jspdf.jsPDF(...): a document of one empty page
NewPdf == << <<>> >>

\* pdf.addPage()
addPage(pages) == Append(pages, <<>>)

\* pdf.addImage(data, 'PNG', x, y, w, h), on the page added last; slice is
\* the index of the page canvas the data comes from, -1 for the whole bitmap
addImage(pages, slice, x, y, w, h) ==
    [pages EXCEPT ![Len(pages)] =
        Append(@, [slice |-> slice, x |-> x, y |-> y, w |-> w, h |-> h])]

\* the single-page branch placing the bitmap with pageHeight for imgHeight
AssembleDocumentStretch ==
    /\ run.pc = "bitmap"
    /\ IF FitsOnePage(run.canvas)
       THEN run' = [run EXCEPT !.pc = "save", !.path = "single",
                       !.pages = addImage(NewPdf, -1, 0, 0,
                                          Quot(PageWidthMm, 1),
                                          Quot(PageHeightMm, 1))]
       ELSE run' = [run EXCEPT !.pc = "loop", !.path = "multi",
                       !.pages = NewPdf, !.page = 0,
                       !.totalPages = TotalPages(run.canvas)]
    /\ UNCHANGED pageVars

\* generatePDF from the new document to the branch on imgHeight, and
\* handleMultiPagePDF up to its loop
AssembleDocument ==
    /\ run.pc = "bitmap"
    /\ IF FitsOnePage(run.canvas)
       THEN run' = [run EXCEPT !.pc = "save", !.path = "single",
                       !.pages = addImage(NewPdf, -1, 0, 0,
                                          Quot(PageWidthMm, 1),
                                          ImgHeight(run.canvas))]
       ELSE run' = [run EXCEPT !.pc = "loop", !.path = "multi",
                       !.pages = NewPdf, !.page = 0,
                       !.totalPages = TotalPages(run.canvas)]
    /\ UNCHANGED pageVars

\* the value an unsigned long attribute (canvas.height) keeps of a double
ToUnsignedLong(q) == q.n \div q.d

\* the page canvas of one iteration and the part of the bitmap drawn into it
PageCanvas(cv, total, p) ==
    [width |-> cv.w,
     height |-> ToUnsignedLong(Quot(cv.h, total)),
     sourceY |-> Quot(p * cv.h, total),
     sourceHeight |-> Quot(cv.h, total)]

\* if (page >= 0) in place of if (page > 0)
AddPageBefore(p) == p >= 0

\* if (page > 0) pdf.addPage()
NeedsAddPage(p) == p > 0

\* one iteration of the loop of handleMultiPagePDF
SlicePage ==
    /\ run.pc = "loop"
    /\ run.page < run.totalPages
    /\ LET pdf == IF NeedsAddPage(run.page) THEN addPage(run.pages)
                                            ELSE run.pages
       IN  run' = [run EXCEPT
                     !.addPageCalls = @ + (IF NeedsAddPage(run.page) THEN 1 ELSE 0),
                     !.pageCanvases =
                         Append(@, PageCanvas(run.canvas, run.totalPages, run.page)),
                     !.pages = addImage(pdf, run.page, 0, 0,
                                        Quot(PageWidthMm, 1),
                                        Quot(PageHeightMm, 1)),
                     !.page = @ + 1]
    /\ UNCHANGED pageVars

\* page < totalPages is false: handleMultiPagePDF returns
LoopExit ==
    /\ run.pc = "loop"
    /\ run.page >= run.totalPages
    /\ run' = [run EXCEPT !.pc = "save"]
    /\ UNCHANGED pageVars

\* pdf.save(fileName)
SaveDocument ==
    /\ run.pc = "save"
    /\ run' = [run EXCEPT !.pc = "saved", !.fileName = FileNameOf(run.name)]
    /\ UNCHANGED pageVars

(* ------------------------------------------------------------------ *)
(* The form outside generatePDF: photo, messages, saving, auto-save     *)
(* ------------------------------------------------------------------ *)

\* what the handlers of this section leave alone
pipeVars == <<envVars, run, isGenerating, loading, domVars, cycles, done,
              lastGeneration, reqVars>>

\* most times the page is loaded again
MaxLoads == 2

\* most 5000 ms timers of showMessage pending at once
MaxHideTimers == 2

\* setTimeout(autoSave, 2000), in seconds
AutoSaveDelay == 2

\* ResumeBuilder.MAX_FILE_SIZE
MAX_FILE_SIZE == 5242880

ALLOWED_IMAGE_TYPES == {"image/jpeg", "image/jpg", "image/png", "image/webp"}

\* createDefaultPhotoDataURL()
DefaultPhoto == "default"

\* event.target.files[0] is undefined
NoFile == [name |-> "none", size |-> 0, type |-> "none"]

\* the files the user can choose: three accepted ones, the second of the
\* largest accepted size, one too large and one of a type not allowed
PhotoFiles ==
    { [name |-> "a", size |-> 1024, type |-> "image/png"],
      [name |-> "b", size |-> MAX_FILE_SIZE, type |-> "image/jpeg"],
      [name |-> "e", size |-> 2048, type |-> "image/webp"],
      [name |-> "c", size |-> MAX_FILE_SIZE + 1, type |-> "image/png"],
      [name |-> "d", size |-> 1024, type |-> "image/gif"] }

validatePhotoFile(file) ==
    /\ ~(file.size > MAX_FILE_SIZE)
    /\ file.type \in ALLOWED_IMAGE_TYPES

MsgSaved == [type |-> "success", text |-> "Progress saved successfully!"]

MsgSaveFailed == [type |-> "error", text |-> "Failed to save progress"]

\* a form with the custom section filled in
FormCustom ==
    [FormBlank EXCEPT !["name"] = <<"A", "l">>,
                      !["custom-title"] = <<"T">>,
                      !["custom-content"] = <<"C", " ">>]

\* the contents the user can give the form while it is saved and restored
UiForms ==
    { FormBlank,
      FormOf(TextAlLi, TextMail, TextPhone, TextAddress, <<>>),
      FormCustom }

\* the key collectFormData stores a field under
SavedKeyOf(f) ==
    CASE f = "custom-title" -> "customTitle"
      [] f = "custom-content" -> "customContent"
      [] OTHER -> f

SavedKeys == { SavedKeyOf(f) : f \in FieldNames }

FieldOfKey(k) == CHOOSE f \in FieldNames : SavedKeyOf(f) = k

\* localStorage.getItem(key) is null
NoSaved ==
    [present |-> FALSE, values |-> [k \in SavedKeys |-> <<>>],
     template |-> "none", includePhoto |-> FALSE, photo |-> "none"]

\* the object collectFormData returns, as JSON.stringify and JSON.parse
\* carry it: 'photo' is a key of it only when the photo is included
FormDataNow ==
    [present |-> TRUE,
     values |-> [k \in SavedKeys |-> Trim(fields[FieldOfKey(k)])],
     template |-> currentTemplate,
     includePhoto |-> includePhoto,
     photo |-> IF includePhoto THEN photoPreview ELSE "none"]

\* data[fieldName] of populateFormFields: undefined, here the empty text,
\* when the object has no such key
DataLookup(data, f) == IF f \in SavedKeys THEN data.values[f] ELSE <<>>

\* the field values populateFormFields leaves in a form that held 'form'
populateFormFields(data, form) ==
    [f \in FieldNames |->
        IF DataLookup(data, f) # <<>> THEN DataLookup(data, f) ELSE form[f]]

\* localStorage.setItem: the value is stored, or the call throws
setItem(old, data, stored) == IF stored THEN data ELSE old

\* showMessage(message, type)
showMessage(m) ==
    /\ message' = m
    /\ msgHidden' = FALSE
    /\ hideTimers' = IF m.type = "success" THEN hideTimers + 1 ELSE hideTimers

\* the form as the user sees it: what a later restore is compared with
FormSnapshot ==
    [fields |-> fields, template |-> currentTemplate,
     includePhoto |-> includePhoto]

NoSnapshot ==
    [fields |-> FormBlank, template |-> "none", includePhoto |-> FALSE]

\* the user changes the contents of the form, the custom section included
FormInput == InputEvent(UiForms)

\* a second passes without an input event while the timer is pending
Tick ==
    /\ autoTimers > 0
    /\ sinceInput < AutoSaveDelay
    /\ sinceInput' = sinceInput + 1
    /\ UNCHANGED <<pipeVars, formVars, message, selectedTemplate, storeVars,
                   noticeVars, autoTimers, autoSaves, photoVars>>

\* the timer of the 'input' listener is due and calls autoSave
autoSave ==
    /\ autoTimers > 0
    /\ sinceInput = AutoSaveDelay
    /\ autoTimers' = autoTimers - 1
    /\ autoSaves' = autoSaves + 1
    /\ \E stored \in BOOLEAN :
          autoSavedData' = setItem(autoSavedData, FormDataNow, stored)
    /\ UNCHANGED <<pipeVars, formVars, message, selectedTemplate, savedData,
                   savedFrom, loads, noticeVars, sinceInput, photoVars>>

\* the save button or Ctrl/Cmd+S
saveProgress ==
    /\ hideTimers < MaxHideTimers
    /\ \E stored \in BOOLEAN :
          /\ savedData' = setItem(savedData, FormDataNow, stored)
          /\ savedFrom' = IF stored THEN FormSnapshot ELSE savedFrom
          /\ showMessage(IF stored THEN MsgSaved ELSE MsgSaveFailed)
    /\ UNCHANGED <<pipeVars, formVars, selectedTemplate, autoSavedData, loads,
                   autoVars, photoVars>>

\* a submit event while validateAllFields() is false, with showMessage in full
InvalidSubmissionNotice ==
    /\ ~InProgressGuard
    /\ ~validateAllFields
    /\ showMessage(MsgFixErrors)
    /\ UNCHANGED <<pipeVars, formVars, selectedTemplate, storeVars, autoVars,
                   photoVars>>

\* the Escape branch of handleKeyboardShortcuts
DismissMessage ==
    /\ ~msgHidden
    /\ msgHidden' = TRUE
    /\ UNCHANGED <<pipeVars, formVars, message, selectedTemplate, storeVars,
                   hideTimers, autoVars, photoVars>>

\* a 5000 ms timer of showMessage is due
HideTimerFires ==
    /\ hideTimers > 0
    /\ hideTimers' = hideTimers - 1
    /\ msgHidden' = TRUE
    /\ UNCHANGED <<pipeVars, formVars, message, selectedTemplate, storeVars,
                   autoVars, photoVars>>

\* the 'change' event of the include-photo checkbox
togglePhotoSection ==
    /\ includePhoto' = ~includePhoto
    /\ IF includePhoto
       THEN /\ photoPreview' = DefaultPhoto
            /\ photoInput' = NoFile.name
            /\ photoWanted' = DefaultPhoto
       ELSE UNCHANGED <<photoPreview, photoInput, photoWanted>>
    /\ UNCHANGED <<pipeVars, formVars, message, selectedTemplate, storeVars,
                   noticeVars, autoVars, photoError, readers>>

\* the 'change' event of the photo input, shown while the photo is included
handlePhotoUpload ==
    /\ includePhoto
    /\ \E file \in PhotoFiles \cup {NoFile} :
          /\ file.name # photoInput
          /\ IF file = NoFile
             THEN /\ photoPreview' = DefaultPhoto
                  /\ photoInput' = NoFile.name
                  /\ photoWanted' = DefaultPhoto
                  /\ photoError' = FALSE
                  /\ UNCHANGED readers
             ELSE IF ~validatePhotoFile(file)
             THEN /\ photoError' = TRUE
                  /\ photoInput' = NoFile.name
                  /\ UNCHANGED <<photoPreview, photoWanted, readers>>
             ELSE /\ readers' = readers \cup {file.name}
                  /\ photoInput' = file.name
                  /\ photoWanted' = file.name
                  /\ photoError' = FALSE
                  /\ UNCHANGED photoPreview
    /\ UNCHANGED <<pipeVars, formVars, message, selectedTemplate, storeVars,
                   noticeVars, autoVars, includePhoto>>

\* reader.onload: the read of a file has completed
ReaderLoad ==
    /\ \E f \in readers :
          /\ readers' = readers \ {f}
          /\ photoPreview' = f
    /\ UNCHANGED <<pipeVars, formVars, message, selectedTemplate, storeVars,
                   noticeVars, autoVars, includePhoto, photoInput, photoError,
                   photoWanted>>

\* reader.onerror: the read of a file has failed, and its file is no longer
\* expected in the preview
ReaderError ==
    /\ \E f \in readers :
          /\ readers' = readers \ {f}
          /\ photoWanted' = IF photoWanted = f THEN photoPreview ELSE photoWanted
    /\ photoError' = TRUE
    /\ UNCHANGED <<pipeVars, formVars, message, selectedTemplate, storeVars,
                   noticeVars, autoVars, includePhoto, photoPreview, photoInput>>

\* localStorage.getItem of loadSavedData: the manual save, else the auto-save
SavedItem == IF savedData.present THEN savedData ELSE autoSavedData

\* the photo after populateFormFields and initializePhotoPreview
RestoredPhoto(data) ==
    IF data.present /\ data.includePhoto /\ data.photo \notin {"none", DefaultPhoto}
    THEN data.photo
    ELSE DefaultPhoto

\* currentTemplate after loadSavedData: the template of the saved form, then
\* loadSavedTemplate's 'selectedTemplate' if there is one
RestoredTemplate(data) ==
    IF selectedTemplate # "none" THEN selectedTemplate
    ELSE IF data.present THEN data.template
    ELSE "modern"

\* the page is loaded again: initializeApplication on a fresh document,
\* of which only localStorage is left
ReloadPage ==
    /\ loads < MaxLoads
    /\ loads' = loads + 1
    /\ fields' = populateFormFields(SavedItem, FormBlank)
    /\ currentTemplate' = RestoredTemplate(SavedItem)
    /\ includePhoto' = (SavedItem.present /\ SavedItem.includePhoto)
    /\ photoPreview' = RestoredPhoto(SavedItem)
    /\ photoWanted' = RestoredPhoto(SavedItem)
    /\ photoInput' = NoFile.name
    /\ photoError' = FALSE
    /\ readers' = {}
    /\ message' = NoMessage
    /\ msgHidden' = TRUE
    /\ hideTimers' = 0
    /\ autoTimers' = 0
    /\ sinceInput' = 0
    /\ autoSaves' = 0
    /\ isGenerating' = FALSE
    /\ loading' = FALSE
    /\ display' = [t \in Templates |-> "none"]
    /\ populated' = [t \in Templates |-> Blank]
    /\ surface' = [t \in Templates |-> {}]
    /\ cycles' = <<>>
    /\ done' = NoCycle
    /\ rejSubmit' = 0
    /\ rejKey' = 0
    /\ warnings' = 0
    /\ UNCHANGED <<envVars, run, lastGeneration, selectedTemplate, savedData,
                   autoSavedData, savedFrom>>

(* ------------------------------------------------------------------ *)
(* Specification                                                        *)
(* ------------------------------------------------------------------ *)

\* storage empty, no message, no timer, the photo not included
FreshUi ==
    /\ savedData = NoSaved
    /\ autoSavedData = NoSaved
    /\ savedFrom = NoSnapshot
    /\ loads = 0
    /\ msgHidden = TRUE
    /\ hideTimers = 0
    /\ autoTimers = 0
    /\ sinceInput = 0
    /\ autoSaves = 0
    /\ includePhoto = FALSE
    /\ photoPreview = DefaultPhoto
    /\ photoInput = NoFile.name
    /\ photoError = FALSE
    /\ readers = {}
    /\ photoWanted = DefaultPhoto

Init ==
    /\ page \in Pages
    /\ fontsApi \in BOOLEAN
    /\ elements \in ControlCaches
    /\ fields = FormBlank
    /\ currentTemplate \in Templates
    /\ isGenerating = FALSE
    /\ loading = FALSE
    /\ message = NoMessage
    /\ display = [t \in Templates |-> "none"]
    /\ populated = [t \in Templates |-> Blank]
    /\ surface = [t \in Templates |-> {}]
    /\ cycles = <<>>
    /\ done = NoCycle
    /\ lastGeneration = [template |-> "none", name |-> <<>>]
    /\ rejSubmit = 0
    /\ rejKey = 0
    /\ warnings = 0
    /\ run = NoRun
    /\ selectedTemplate = currentTemplate
    /\ FreshUi

\* the steps the event loop takes for a suspended invocation
CycleStep ==
    \E i \in 1..Len(cycles) :
        \/ FontsReady(i)
        \/ FontsRejected(i)
        \/ \E h \in ContentHeights : ResourcesReady(i, h)
        \/ LayoutSettled(i)
        \/ RasterRejected(i)
        \/ \E cv \in Canvases, fault \in {"none", "place", "save"},
              failAt \in 1..MaxPages, stored \in BOOLEAN :
                RasterResolved(i, cv, fault, failAt, stored)

Next ==
    \/ EditForm
    \/ handleTemplateChange
    \/ handleFormSubmission
    \/ handleKeyboardShortcuts
    \/ CycleStep

Spec == Init /\ [][Next]_vars

\* the event loop runs every timer that is due and every settled promise
FairSpec == Spec /\ WF_vars(CycleStep)

\* names validateField accepts, as collectFormData trims them
NameInputs ==
    { <<"A", "l">>,
      <<"A", "l", "-", "L", "i">>,
      <<"O", "'", "N", "e", "i", "l">>,
      <<"a", " ", " ", "-", "B">> }

\* offsetWidth of the template: 794 px is 210 mm at 96 dpi
WidthInputs == {600, 794, 900}

\* scrollHeight of the template, on both sides of every threshold
HeightInputs ==
    {1000, 1122, 1123, 1234, 1235, 1291, 1796, 1797, 2245, 2246, 2357}

\* bitmaps of up to MaxPages + 1 pages
CanvasInputs ==
    { [w |-> w, h |-> h] : w \in {PageWidthMm, 300},
                           h \in 1..(PageHeightMm * MaxPages + 2) }

RunInputs ==
    { [NoRun EXCEPT !.pc = "fit", !.name = n, !.width = 794, !.height = 1000] :
        n \in NameInputs }
    \cup { [NoRun EXCEPT !.pc = "fit", !.name = <<"A", "l">>,
                         !.width = w, !.height = h] :
             w \in WidthInputs, h \in HeightInputs }
    \cup { [NoRun EXCEPT !.pc = "bitmap", !.name = <<"A", "l">>, !.canvas = cv] :
             cv \in CanvasInputs }

\* generatePDF has been called, or html2canvas has resolved
RunInit ==
    /\ run \in RunInputs
    /\ page = [roots |-> {"modern"}, parts |-> {"modern"}]
    /\ fontsApi = TRUE
    /\ elements = [c \in SectionControls |-> "unchecked"]
    /\ fields = FormBlank
    /\ currentTemplate = "modern"
    /\ isGenerating = TRUE
    /\ loading = TRUE
    /\ message = NoMessage
    /\ display = [t \in Templates |-> IF t = "modern" THEN "block" ELSE "none"]
    /\ populated = [t \in Templates |-> Blank]
    /\ surface = [t \in Templates |-> {}]
    /\ cycles = <<>>
    /\ done = NoCycle
    /\ lastGeneration = [template |-> "none", name |-> <<>>]
    /\ rejSubmit = 0
    /\ rejKey = 0
    /\ warnings = 0
    /\ selectedTemplate = "modern"
    /\ FreshUi

RunNext ==
    \/ FitContent
    \/ Rasterize
    \/ AssembleDocument
    \/ SlicePage
    \/ LoopExit
    \/ SaveDocument

RunSpec == RunInit /\ [][RunNext]_vars

\* the page loaded for the first time, with the element cache cacheElements
\* builds: nothing stored, the form empty, the default template
FreshPage ==
    /\ page = [roots |-> {"modern"}, parts |-> Templates]
    /\ fontsApi = TRUE
    /\ elements = [c \in SectionControls |-> "undefined"]
    /\ fields = FormBlank
    /\ currentTemplate = "modern"
    /\ isGenerating = FALSE
    /\ loading = FALSE
    /\ message = NoMessage
    /\ display = [t \in Templates |-> "none"]
    /\ populated = [t \in Templates |-> Blank]
    /\ surface = [t \in Templates |-> {}]
    /\ cycles = <<>>
    /\ done = NoCycle
    /\ lastGeneration = [template |-> "none", name |-> <<>>]
    /\ rejSubmit = 0
    /\ rejKey = 0
    /\ warnings = 0
    /\ run = NoRun
    /\ selectedTemplate = "none"
    /\ FreshUi

\* filling in, saving and reloading the form, and the messages this shows
StoreNext ==
    \/ FormInput
    \/ handleTemplateChange
    \/ togglePhotoSection
    \/ saveProgress
    \/ InvalidSubmissionNotice
    \/ DismissMessage
    \/ HideTimerFires
    \/ ReloadPage

StoreSpec == FreshPage /\ [][StoreNext]_vars

\* the auto-save timer of the form
AutoNext ==
    \/ FormInput
    \/ handleTemplateChange
    \/ Tick
    \/ autoSave
    \/ ReloadPage

AutoSpec == FreshPage /\ [][AutoNext]_vars

\* the photo of the form
PhotoNext ==
    \/ togglePhotoSection
    \/ handlePhotoUpload
    \/ ReaderLoad
    \/ ReaderError

PhotoSpec == FreshPage /\ [][PhotoNext]_vars

(* ------------------------------------------------------------------ *)
(* Properties                                                           *)
(* ------------------------------------------------------------------ *)

Range(q) == { q[k] : k \in 1..Len(q) }

IsPrefix(a, b) == Len(a) <= Len(b) /\ SubSeq(b, 1, Len(a)) = a

ErrorNotices(rec) ==
    Cardinality({ k \in 1..Len(rec.notices) : rec.notices[k].type = "error" })

\* the stages of a cycle in the order of the specification
StageOrder(kind) ==
    <<"shown", "resources", "fit", "settled", "raster",
      "bitmap", "hidden", "decide", kind, "save">>

InStageOrder(trace) ==
    \E kind \in {"single", "paginate"} : IsPrefix(trace, StageOrder(kind))

\* C1: at most one invocation of generatePDF is suspended at any time, and
\* isGenerating is true as long as one is; a submit event that arrives
\* meanwhile starts no second one.
C1_AtMostOneCycle ==
    /\ Len(cycles) <= 1
    /\ cycles # <<>> => isGenerating

\* a submit event was refused while a cycle waits for its layout to settle
C1_Witness ==
    /\ Len(cycles) = 1
    /\ cycles[1].pc = "settle"
    /\ rejSubmit > 0

C4_NoPartialArtifact ==
    [][ /\ done'.saves <= 1
        /\ done'.saves = 1 => done'.total >= 1 /\ done'.placed = done'.total
        /\ done'.outcome \in {"populate", "notfound", "raster", "place"}
              => done'.saves = 0 /\ ~done'.recorded
        /\ lastGeneration' # lastGeneration
              => /\ done'.outcome = "saved" /\ done'.saves = 1
                 /\ done'.placed = done'.total
                 /\ lastGeneration'.template = done'.data.template ]_vars

\* a slice of a multi-page document threw after a page had been placed, and
\* nothing was saved or recorded
C4_Witness ==
    /\ done.outcome = "place"
    /\ done.total > 1
    /\ done.placed >= 1
    /\ done.saves = 0
    /\ lastGeneration.template = "none"

C6_RefusalLeavesCycleAlone ==
    [][ (rejSubmit' > rejSubmit \/ rejKey' > rejKey)
           => UNCHANGED <<cycles, done, isGenerating, loading, display,
                          populated, surface, lastGeneration>> ]_vars

\* requests of both kinds were refused while the rasterizer was running, the
\* form having been changed since the snapshot was taken
C6_Witness ==
    /\ Len(cycles) = 1
    /\ cycles[1].pc = "raster"
    /\ rejSubmit > 0
    /\ rejKey > 0
    /\ Trim(fields["name"]) # cycles[1].data.name
    /\ isGenerating
    /\ loading

C9_StagesInOrder ==
    /\ \A i \in 1..Len(cycles) :
          /\ InStageOrder(cycles[i].trace)
          /\ cycles[i].pc = "raster"
                => /\ display[cycles[i].data.template] = "block"
                   /\ cycles[i].trace = SubSeq(StageOrder("single"), 1, 5)
    /\ InStageOrder(done.trace)
    /\ done.outcome = "saved"
          => done.trace = StageOrder(IF done.total = 1 THEN "single" ELSE "paginate")

\* a multi-page document went through every stage
C9_Witness ==
    /\ done.outcome = "saved"
    /\ done.total > 1
    /\ done.trace = StageOrder("paginate")

\* C10: the rasterizer is called exactly once in a cycle that reaches
\* Rasterizing, on the single-page and on the multi-page path, and not at
\* all in a cycle that fails earlier.
C10_OneBitmapPerCycle ==
    /\ \A i \in 1..Len(cycles) :
          cycles[i].rasterCalls = IF cycles[i].pc = "raster" THEN 1 ELSE 0
    /\ done.rasterCalls =
          IF done.outcome \in {"raster", "place", "save", "saved"} THEN 1 ELSE 0

\* a single-page and then a failing request: one call, then none
C10_Witness ==
    /\ done.outcome = "notfound"
    /\ done.rasterCalls = 0
    /\ lastGeneration.template = "modern"

\* the least n with n * q.d >= q.n
CeilOf(q) ==
    CHOOSE n \in 1..(2 * MaxPages + 2) : n * q.d >= q.n /\ (n - 1) * q.d < q.n

\* C11: with imgHeight = 210 * canvas.height / canvas.width, a bitmap with
\* imgHeight <= 297 bypasses handleMultiPagePDF and gives a document of one
\* page; any other gives ceil(imgHeight / 297) pages, with one addPage call
\* less than pages and exactly one image on every page.
C11_PageCount ==
    run.pc \in {"save", "saved"} =>
        LET pages == Quot(PageWidthMm * run.canvas.h, PageHeightMm * run.canvas.w)
        IN  IF PageWidthMm * run.canvas.h <= PageHeightMm * run.canvas.w
            THEN /\ run.path = "single"
                 /\ run.pageCanvases = <<>>
                 /\ run.addPageCalls = 0
                 /\ Len(run.pages) = 1
                 /\ Len(run.pages[1]) = 1
            ELSE /\ run.path = "multi"
                 /\ Len(run.pages) = CeilOf(pages)
                 /\ run.addPageCalls = CeilOf(pages) - 1
                 /\ \A p \in 1..Len(run.pages) : Len(run.pages[p]) = 1

\* a bitmap of exactly two page heights gave two pages and one addPage call
C11_Witness ==
    /\ run.pc = "saved"
    /\ run.canvas = [w |-> PageWidthMm, h |-> 2 * PageHeightMm]
    /\ Len(run.pages) = 2
    /\ run.addPageCalls = 1

RECURSIVE SumHeights(_)
SumHeights(s) == IF s = <<>> THEN 0 ELSE Head(s).height + SumHeights(Tail(s))

\* C12: the slices partition the height of the bitmap. Slice i starts at
\* i * canvas.height / k and is canvas.height / k high, every slice starts
\* where the one before ends, the last ends at canvas.height, and the heights
\* of the k page canvases add up to canvas.height, for every height.
C12_SlicesPartition ==
    (run.pc \in {"save", "saved"} /\ run.path = "multi") =>
        LET s == run.pageCanvases
            k == Len(s)
            H == run.canvas.h
        IN  /\ k = run.totalPages
            /\ \A i \in 1..k :
                  /\ QuotEq(s[i].sourceY, Quot((i - 1) * H, k))
                  /\ QuotEq(s[i].sourceHeight, Quot(H, k))
            /\ \A i \in 1..(k - 1) :
                  /\ QuotLt(s[i].sourceY, s[i + 1].sourceY)
                  /\ QuotEq(QuotSum(s[i].sourceY, s[i].sourceHeight), s[i + 1].sourceY)
            /\ QuotEq(QuotSum(s[k].sourceY, s[k].sourceHeight), Quot(H, 1))
            /\ SumHeights(s) = H

\* the image handleMultiPagePDF places for slice i
SliceImage(i) ==
    [slice |-> i, x |-> 0, y |-> 0,
     w |-> Quot(PageWidthMm, 1), h |-> Quot(PageHeightMm, 1)]

\* C13: on the multi-page path slice i is placed on page i + 1, in ascending
\* order, at (0, 0) with width 210 and height 297; a page is added before
\* every slice except the first and none after the last, so the document
\* always has as many pages as slices placed (one, empty, before the first).
C13_SlicesInOrder ==
    run.path = "multi" =>
        /\ Len(run.pages) = IF run.page = 0 THEN 1 ELSE run.page
        /\ \A p \in 1..run.page : run.pages[p] = <<SliceImage(p - 1)>>
        /\ run.page = 0 => run.pages = << <<>> >>
        /\ run.addPageCalls = IF run.page = 0 THEN 0 ELSE run.page - 1
        /\ run.pc # "loop" => run.page = run.totalPages

\* two of three slices are placed
C13_Witness ==
    /\ run.pc = "loop"
    /\ run.totalPages = 3
    /\ run.page = 2
    /\ Len(run.pages) = 2

\* C14 as stated: on the single-page path the bitmap is placed with width 210
\* and height 297.
C14_SinglePageFullPage ==
    run.path = "single" =>
        /\ Len(run.pages) = 1
        /\ Len(run.pages[1]) = 1
        /\ QuotEq(run.pages[1][1].w, Quot(PageWidthMm, 1))
        /\ QuotEq(run.pages[1][1].h, Quot(PageHeightMm, 1))

\* C14 as amended: on the single-page path the whole bitmap is placed once,
\* at (0, 0), with width 210 and height imgHeight = 210 * canvas.height /
\* canvas.width, which is at most 297.
C14_SinglePageImgHeight ==
    run.path = "single" =>
        /\ Len(run.pages) = 1
        /\ Len(run.pages[1]) = 1
        /\ run.pages[1][1].slice = -1
        /\ run.pages[1][1].x = 0
        /\ run.pages[1][1].y = 0
        /\ QuotEq(run.pages[1][1].w, Quot(PageWidthMm, 1))
        /\ QuotEq(run.pages[1][1].h,
                  Quot(PageWidthMm * run.canvas.h, run.canvas.w))
        /\ QuotLe(run.pages[1][1].h, Quot(PageHeightMm, 1))

\* a bitmap of 300 x 200 px was placed 140 mm high
C14_Witness ==
    /\ run.pc = "saved"
    /\ run.path = "single"
    /\ run.canvas = [w |-> 300, h |-> 200]
    /\ QuotEq(run.pages[1][1].h, Quot(140, 1))

AllTiers == {"compact", "scale", "manual"}

\* C15: the tiers follow strict thresholds on overflowRatio = scrollHeight /
\* 1122.52041 and are nested: nothing up to 1.1 (1234 px), compact alone up
\* to 1.6 (1796 px), compact and scale up to 2.0 (2245 px), all three above;
\* never manual without scale, never scale without compact.
C15_TiersNested ==
    (run.pc \notin {"none", "fit"} /\ run.height > 0) =>
        /\ run.fitted =
              IF run.height <= 1234 THEN {}
              ELSE IF run.height <= 1796 THEN {"compact"}
              ELSE IF run.height <= 2245 THEN {"compact", "scale"}
              ELSE AllTiers
        /\ "manual" \in run.fitted => "scale" \in run.fitted
        /\ "scale" \in run.fitted => "compact" \in run.fitted

\* ratio 1.15 (1291 px) was given compact mode alone, and the bitmap came
C15_Witness ==
    /\ run.pc = "bitmap"
    /\ run.height = 1291
    /\ run.fitted = {"compact"}

C17_ScaleAtRatio21 ==
    (run.height = 2357 /\ run.pc \notin {"none", "fit"}) =>
        /\ run.fitted = AllTiers
        /\ 475 * run.scale.d <= 1000 * run.scale.n
        /\ 1000 * run.scale.n <= 477 * run.scale.d

\* C17 as amended: at ratio 2.1 all three tiers are applied and the scale
\* factor is max(0.75, 1 / 2.1) = 0.75.
C17_ScaleIsThreeQuarters ==
    (run.height = 2357 /\ run.pc \notin {"none", "fit"}) =>
        /\ run.fitted = AllTiers
        /\ QuotEq(run.scale, Quot(3, 4))

\* the fitter has run on a template 2357 px high
C17_Witness ==
    /\ run.height = 2357
    /\ run.pc = "raster"
    /\ "scale" \in run.fitted
    /\ run.scale.n = 3

\* C18: a template whose measured height is the page height of the fitter
\* (1122.52 px: 1122 or 1123) gets no tier and a document of one page,
\* whatever its rendered width.
C18_RatioOneSinglePage ==
    (run.height \in {1122, 1123} /\ run.pc \in {"save", "saved"}) =>
        /\ run.fitted = {}
        /\ Len(run.pages) = 1

AlphaNumeric == Lower \cup Upper \cup Digit

\* C19: the file name is the name with every character outside [a-zA-Z0-9]
\* replaced by one '_', the others kept in place, followed by '_Resume.pdf';
\* it depends on nothing but the name.
C19_FileNameSanitised ==
    run.pc = "saved" =>
        /\ Len(run.fileName) = Len(run.name) + 11
        /\ \A i \in 1..Len(run.name) :
              run.fileName[i] =
                  IF run.name[i] \in AlphaNumeric THEN run.name[i] ELSE "_"
        /\ SubSeq(run.fileName, Len(run.name) + 1, Len(run.fileName))
              = <<"_", "R", "e", "s", "u", "m", "e", ".", "p", "d", "f">>

\* the name 'a  -B' was saved as 'a___B_Resume.pdf'
C19_Witness ==
    /\ run.pc = "saved"
    /\ run.name = <<"a", " ", " ", "-", "B">>
    /\ SubSeq(run.fileName, 1, 5) = <<"a", "_", "_", "_", "B">>

OptionalFields == FieldNames \ {"name", "email", "phone", "address"}

\* C20: validateField accepts every optional field that is empty, and with
\* name, email, phone and address valid and every optional field empty
\* validateAllFields is true, so that a submission goes on to generatePDF.
C20_OptionalFieldsOptional ==
    /\ \A f \in OptionalFields : Trim(fields[f]) = <<>> => validateField(f)
    /\ (fields = FormOf(TextAlLi, TextMail, TextPhone, TextAddress, <<>>))
          => validateAllFields

\* C21: a submit event with no cycle in progress and validateAllFields false
\* starts no cycle and leaves the pipeline as it was: isGenerating, the
\* loading indicator, the templates' contents, visibility and transforms, the
\* suspended invocations and the last finished one; it shows the error
\* message. The step that puts the message up is that submission.
C21_InvalidSubmissionNoCycle ==
    [][ (~isGenerating /\ ~validateAllFields
            /\ message' = MsgFixErrors /\ message # MsgFixErrors)
        => UNCHANGED <<isGenerating, loading, display, populated, surface,
                       cycles, done, lastGeneration>> ]_vars

\* the error of an invalid submission is up, and no cycle ever ran
C21_Witness ==
    /\ message = MsgFixErrors
    /\ ~validateAllFields
    /\ ~isGenerating
    /\ ~loading
    /\ cycles = <<>>
    /\ done = NoCycle
    /\ \A t \in Templates : display[t] = "none" /\ populated[t] = Blank

\* C25: whenever the fitter applies the scale (overflow ratio above 1.6) the
\* factor Math.max(0.75, 1 / ratio) is exactly 0.75 and width and height are
\* set to 100 / 0.75 percent, 4/3 of the containing block; 1 / ratio is below
\* 0.75 in every such case, so it never determines the factor.
C25_ScaleAlwaysFloor ==
    "scale" \in run.fitted =>
        /\ QuotEq(run.scale, Quot(3, 4))
        /\ QuotEq(run.box, Quot(4, 3))
        /\ QuotLt(Quot(PageHeightPx5, run.height * 100000), Quot(3, 4))

\* the scale was applied at 1797 px, the first height above ratio 1.6
C25_Witness ==
    /\ run.height = 1797
    /\ run.pc = "raster"
    /\ "scale" \in run.fitted
    /\ "manual" \notin run.fitted
    /\ QuotEq(run.box, Quot(4, 3))

\* C22: when the page is loaded again after saveProgress succeeded,
\* loadSavedData restores every one of the fourteen fields, custom-title and
\* custom-content among them, the include-photo checkbox and the selected
\* template to what they were when saved. The values are compared as
\* collectFormData reads them, trimmed, and the template only where no other
\* template was chosen after the save.
C22_SaveLoadRoundTrip ==
    [][ (loads' = loads + 1 /\ savedData.present
            /\ selectedTemplate \in {"none", savedFrom.template})
        => /\ \A f \in FieldNames : fields'[f] = Trim(savedFrom.fields[f])
           /\ includePhoto' = savedFrom.includePhoto
           /\ currentTemplate' = savedFrom.template ]_vars

\* C23: only success messages hide themselves; an error or a warning stays
\* visible until another message replaces it or Escape dismisses it, and no
\* timer ever hides it.
C23_ErrorsNeverTimedOut ==
    [][ (hideTimers' = hideTimers - 1 /\ loads' = loads
            /\ message.type \in {"error", "warning"} /\ ~msgHidden)
        => ~msgHidden' ]_vars

\* C26: once every pending read has completed, the preview shows what the
\* most recent photo action asks for: the file selected last, if it was
\* accepted, or the default picture if the photo section was switched off or
\* the selection cleared after it. A read that completes late never
\* overwrites a newer state.
C26_PreviewIsLatestAction ==
    readers = {} => photoPreview = photoWanted

\* C24: auto-save is debounced. While the page stays loaded at most one
\* timer is pending; every input event leaves exactly one timer and no
\* autoSave behind it; no other step changes the number of timers and
\* autoSave calls taken together, so that a burst of inputs ends in exactly
\* one autoSave; autoSave runs only when 2000 ms have passed without an
\* input event, and it stores the form data as it is at that moment.
C24_DebouncedAutoSaveStores ==
    [][ loads' = loads =>
          /\ autoTimers' <= 1
          /\ (fields' # fields => autoTimers' = 1 /\ autoSaves' = 0)
          /\ (fields' = fields =>
                 autoTimers' + autoSaves' = autoTimers + autoSaves)
          /\ (autoSaves' = autoSaves + 1 =>
                 /\ sinceInput = AutoSaveDelay
                 /\ autoSavedData' = FormDataNow) ]_vars

\* C24 as amended: the same, except that autoSave stores the form data of
\* that moment unless localStorage rejects the write, in which case the
\* auto-saved data stays as it was.
C24_DebouncedAutoSave ==
    [][ loads' = loads =>
          /\ autoTimers' <= 1
          /\ (fields' # fields => autoTimers' = 1 /\ autoSaves' = 0)
          /\ (fields' = fields =>
                 autoTimers' + autoSaves' = autoTimers + autoSaves)
          /\ (autoSaves' = autoSaves + 1 =>
                 /\ sinceInput = AutoSaveDelay
                 /\ autoSavedData' \in {FormDataNow, autoSavedData}) ]_vars

\* the one autoSave of a burst has run and stored the form as it is
C24_Witness ==
    /\ autoSaves = 1
    /\ autoTimers = 0
    /\ sinceInput = AutoSaveDelay
    /\ fields = FormCustom
    /\ autoSavedData = FormDataNow

====
